---- MODULE Spec2Model ----
(***************************************************************************)
(* Reference-counting model of rc::Retained<T> (src/src/rc/retained.rs).   *)
(*                                                                         *)
(* The Objective-C runtime is the external collaborator: the retain count  *)
(* of an object, a stack of autorelease pools, and the primitives          *)
(* objc_retain / objc_release / objc_autorelease.  Retained<T> is a        *)
(* one-field wrapper (ptr) whose methods call those primitives.  The       *)
(* model follows one object of the runtime's heap and every wrapper,       *)
(* reference and pool registration of it.                                  *)
(***************************************************************************)
EXTENDS Integers, Sequences, FiniteSets

\* ---------------------------------------------------------------- bounds
MaxWrappers == 3      \* Retained<T> values alive at once
MaxPools == 2         \* nesting depth of autorelease pools
MaxClaims == 3        \* +1 claims created on the object in one run
MaxBase == 1          \* claims other owners hold before the run
MaxViews == 2         \* references borrowed from wrappers at once
UBCount == 1          \* largest count found after undefined behaviour
NumThreads == 2       \* threads a wrapper can be on
MaxValue == 1         \* largest value an object compares as

Obj == 1                          \* the object's address
Null == 0                         \* "no wrapper in this slot"
Slots == 1..MaxWrappers           \* places a Retained<T> value can live in
Obj2 == 2                         \* the address of another object
Addresses == {Obj, Obj2}
Home == 1                         \* the thread the object was created on
Threads == 1..NumThreads
Values == 0..MaxValue

\* ---------------------------------------------------------------- state
VARIABLES
    count,         \* runtime: the object's retain count (0 = deallocated)
    pools,         \* runtime: stack of autorelease pools, innermost last;
                   \*          each entry is the pool's registrations
    retains,       \* number of objc_retain calls made on the object
    releases,      \* number of objc_release calls made on the object
    autoreleases,  \* number of objc_autorelease calls made on the object
    ub,            \* a primitive or a reference touched a deallocated object
    count0,        \* the retain count before the first operation
    given,         \* +1 claims handed to the caller by the runtime
    plusOne,       \* of those, the ones no wrapper represents yet
    retained,      \* Retained<T> values: slot -> ptr field (Null = no value)
    owned,         \* whether the Owned<T> of the object exists
    views,         \* references borrowed from a wrapper by deref/deref_mut
    pooled,        \* references returned by autorelease, bound to a pool
    lastOp,        \* the operation the last step took
    thread,        \* the thread each Retained<T> value is (or was last) on
    pointee,       \* whether the pointee type T is Send and whether Sync
    heap,          \* the value of the object at each address, as T compares it
    answer,        \* what the last call returned to its caller
    env            \* what the build and the runtime gave the last retain call

vars == <<count, pools, retains, releases, autoreleases, ub, count0, given,
          plusOne, retained, owned, views, pooled, lastOp, thread, pointee,
          heap, answer, env>>

\* What the operations of a single-threaded run that returns nothing to
\* compare leave alone.
aux == <<thread, pointee, heap, answer, env>>

\* The runtime's state as one value, so that the primitives are functions.
RT == [count |-> count, pools |-> pools, retains |-> retains,
       releases |-> releases, autoreleases |-> autoreleases, ub |-> ub]

SetRT(rt) ==
    /\ count' = rt.count
    /\ pools' = rt.pools
    /\ retains' = rt.retains
    /\ releases' = rt.releases
    /\ autoreleases' = rt.autoreleases
    /\ ub' = rt.ub

\* ------------------------------------------------- runtime primitives
\* Touching a deallocated object is undefined behaviour: the count found
\* afterwards is any value, and ub records that it happened.  A call on
\* another object than Obj leaves what the model follows as it is.
Undefined(rt) == {[rt EXCEPT !.count = c, !.ub = TRUE] : c \in 0..UBCount}

objc_retain(rt, ptr) ==
    LET called == [rt EXCEPT !.retains = @ + 1]
    IN  IF ptr # Obj THEN {rt}
        ELSE IF rt.count = 0
        THEN Undefined(called)
        ELSE {[called EXCEPT !.count = @ + 1]}

objc_release(rt, ptr) ==
    LET called == [rt EXCEPT !.releases = @ + 1]
    IN  IF ptr # Obj THEN {rt}
        ELSE IF rt.count = 0
        THEN Undefined(called)
        ELSE {[called EXCEPT !.count = @ - 1]}

\* Registers ptr with the innermost (current) pool; the count is untouched.
objc_autorelease(rt, ptr) ==
    LET called == [rt EXCEPT !.autoreleases = @ + 1,
                             !.pools[Len(rt.pools)] = @ + 1]
    IN  IF ptr # Obj THEN {rt}
        ELSE IF rt.count = 0
        THEN {[called EXCEPT !.ub = TRUE]}
        ELSE {called}

objc_autoreleasePoolPush(rt) == [rt EXCEPT !.pools = Append(@, 0)]

RECURSIVE ReleaseTimes(_, _)
ReleaseTimes(rts, n) ==
    IF n = 0 THEN rts
    ELSE ReleaseTimes(UNION {objc_release(rt, Obj) : rt \in rts}, n - 1)

\* Drains the innermost pool: one release per registration, then the pool
\* is gone.
objc_autoreleasePoolPop(rt) ==
    LET d == Len(rt.pools)
    IN  ReleaseTimes({[rt EXCEPT !.pools = SubSeq(@, 1, d - 1)]}, rt.pools[d])

\* ------------------------------------------------------- Retained<T>
\* A method yields the set of its outcomes [rt, self]: the runtime
\* afterwards and the value returned.
\* Mutant of new: the handle is retained as it is wrapped.
new_retains(rt, ptr) ==
    {[rt |-> r, self |-> ptr] : r \in objc_retain(rt, ptr)}

new(rt, ptr) == {[rt |-> rt, self |-> ptr]}

\* Mutant of as_ptr: the address handed out is not the ptr field.
as_ptr_of_other(self) == IF self = Obj THEN Obj2 ELSE Obj

as_ptr(self) == self

\* Mutant of Retained_retain: the returned handle is wrapped unchecked.
retain_unchecked(rt, ptr, rtn, debug_assertions) ==
    {[rt |-> r, self |-> rtn, panicked |-> FALSE] :
        r \in objc_retain(rt, ptr)}

\* Retained::retain in full: rtn is the handle objc_retain returns, which
\* debug_assert_eq! compares with ptr in a build with debug assertions; a
\* failed assertion panics and no value is built.
Retained_retain(rt, ptr, rtn, debug_assertions) ==
    LET failed == debug_assertions /\ rtn # ptr
    IN  {[rt |-> r, self |-> IF failed THEN Null ELSE rtn,
          panicked |-> failed] : r \in objc_retain(rt, ptr)}

\* Retained::retain with a runtime whose objc_retain returns its argument.
retain(rt, ptr) ==
    {[rt |-> o.rt, self |-> o.self] : o \in Retained_retain(rt, ptr, ptr, TRUE)}

\* todo!(): the call panics before anything else happens.
retain_and_autorelease(rt, obj, pool) ==
    {[rt |-> rt, ref |-> Null, panicked |-> TRUE]}

\* Mutant of clone: the pointer is copied and objc_retain is not called.
clone_copies_ptr(rt, self) == {[rt |-> rt, self |-> as_ptr(self)]}

clone(rt, self) == retain(rt, as_ptr(self))

\* Mutant of drop: the claim is forgotten, objc_release is not called.
drop_leaks(rt, self) == {rt}

\* Mutant of drop: objc_release is called twice.
drop_twice(rt, self) ==
    UNION {objc_release(r, self) : r \in objc_release(rt, self)}

drop(rt, self) == objc_release(rt, self)

\* Mutant of autorelease: self is not put into ManuallyDrop, so its
\* destructor runs when the method returns.
autorelease_drops(rt, self, pool) ==
    {[rt |-> r2,
      ref |-> [ptr |-> self, pool |-> pool, reg |-> Len(rt.pools),
               released |-> FALSE]] :
        r2 \in UNION {objc_release(r, self) :
                      r \in objc_autorelease(rt, self)}}

\* Mutant of autorelease: self is forgotten and objc_autorelease is not
\* called.
autorelease_forgets(rt, self, pool) ==
    {[rt |-> rt,
      ref |-> [ptr |-> self, pool |-> pool, reg |-> Len(rt.pools),
               released |-> FALSE]]}

\* self goes into ManuallyDrop, so drop does not run; the pool argument
\* gives the returned reference its lifetime and nothing else.
autorelease(rt, self, pool) ==
    {[rt |-> r,
      ref |-> [ptr |-> self, pool |-> pool, reg |-> Len(rt.pools),
               released |-> FALSE]] : r \in objc_autorelease(rt, self)}

\* Mutant of deref: the reference handed out is a mutable one.
deref_mutably(self) == [ptr |-> self, mutable |-> TRUE]

deref(self) == [ptr |-> self, mutable |-> FALSE]

\* ---------------------------------------------------------- Owned<T>
Owned_deref(obj) == [ptr |-> obj, mutable |-> FALSE]

Owned_deref_mut(obj) == [ptr |-> obj, mutable |-> TRUE]

Owned_drop(rt, obj) == objc_release(rt, obj)

\* From<Owned<T>>: Self::new(&*obj), after which obj, a parameter taken by
\* value and never forgotten, goes out of scope and its destructor runs.
from(rt, obj) ==
    UNION {{[rt |-> r, self |-> n.self] : r \in Owned_drop(n.rt, obj)} :
           n \in new(rt, Owned_deref(obj).ptr)}

\* ------------------------------------------------------------ helpers
Free == {w \in Slots : retained[w] = Null}
FreeSlot == CHOOSE w \in Free : \A x \in Free : w <= x
Live == {w \in Slots : retained[w] # Null}
Claims == given + retains
Borrowed(w) == \E v \in views : v.of = w
Op(name, w, nw, p) == [op |-> name, w |-> w, nw |-> nw, pool |-> p]
Borrow(v, w) == [ptr |-> v.ptr, mutable |-> v.mutable, of |-> w]
NoAnswer == [value |-> Null, panicked |-> FALSE]
NoEnv == [rtn |-> Null, debug_assertions |-> FALSE]

RECURSIVE Sum(_)
Sum(s) == IF s = <<>> THEN 0 ELSE Head(s) + Sum(Tail(s))
Pending == Sum(pools)

\* ------------------------------------------------------------ actions
\* The runtime hands the caller a +1 claim on the object (a method with
\* ns_returns_retained, such as +new, which also allocates it).
MsgSendNew ==
    /\ Claims < MaxClaims
    /\ ~owned
    /\ count' = count + 1
    /\ given' = given + 1
    /\ plusOne' = plusOne + 1
    /\ lastOp' = Op("msg_send_new", 0, 0, 0)
    /\ UNCHANGED <<pools, retains, releases, autoreleases, ub, count0,
                   retained, owned, views, pooled>>
    /\ UNCHANGED aux

\* unsafe Retained::new(ptr); the caller holds an unwrapped +1 claim.
CallNew ==
    /\ plusOne > 0
    /\ ~owned
    /\ Free # {}
    /\ \E o \in new(RT, Obj) :
          /\ SetRT(o.rt)
          /\ retained' = [retained EXCEPT ![FreeSlot] = o.self]
    /\ plusOne' = plusOne - 1
    /\ lastOp' = Op("new", 0, FreeSlot, 0)
    /\ UNCHANGED <<count0, given, owned, views, pooled>>
    /\ UNCHANGED aux

\* unsafe Retained::retain(ptr); the caller passes a live object that has
\* no Owned.
CallRetain ==
    /\ count > 0
    /\ ~owned
    /\ Free # {}
    /\ Claims < MaxClaims
    /\ \E o \in retain(RT, Obj) :
          /\ SetRT(o.rt)
          /\ retained' = [retained EXCEPT ![FreeSlot] = o.self]
    /\ lastOp' = Op("retain", 0, FreeSlot, 0)
    /\ UNCHANGED <<count0, given, plusOne, owned, views, pooled>>
    /\ UNCHANGED aux

CallClone(w) ==
    /\ retained[w] # Null
    /\ Free # {}
    /\ Claims < MaxClaims
    /\ \E o \in clone(RT, retained[w]) :
          /\ SetRT(o.rt)
          /\ retained' = [retained EXCEPT ![FreeSlot] = o.self]
    /\ lastOp' = Op("clone", w, FreeSlot, 0)
    /\ UNCHANGED <<count0, given, plusOne, owned, views, pooled>>
    /\ UNCHANGED aux

CallDrop(w) ==
    /\ retained[w] # Null
    /\ ~Borrowed(w)
    /\ \E r \in drop(RT, retained[w]) : SetRT(r)
    /\ retained' = [retained EXCEPT ![w] = Null]
    /\ lastOp' = Op("drop", w, 0, 0)
    /\ UNCHANGED <<count0, given, plusOne, owned, views, pooled>>
    /\ UNCHANGED aux

\* w.autorelease(&pool), pool being any pool whose scope the call is in.
CallAutorelease(w, p) ==
    /\ retained[w] # Null
    /\ ~Borrowed(w)
    /\ p \in 1..Len(pools)
    /\ \E o \in autorelease(RT, retained[w], p) :
          /\ SetRT(o.rt)
          /\ pooled' = pooled \cup {o.ref}
    /\ retained' = [retained EXCEPT ![w] = Null]
    /\ lastOp' = Op("autorelease", w, 0, p)
    /\ UNCHANGED <<count0, given, plusOne, owned, views>>
    /\ UNCHANGED aux

\* &*w: a reference to a deallocated object is undefined behaviour.
CallDeref(w) ==
    /\ retained[w] # Null
    /\ Cardinality(views) < MaxViews
    /\ views' = views \cup {Borrow(deref(retained[w]), w)}
    /\ ub' = (ub \/ (retained[w] = Obj /\ count = 0))
    /\ lastOp' = Op("deref", w, 0, 0)
    /\ UNCHANGED <<count, pools, retains, releases, autoreleases, count0,
                   given, plusOne, retained, owned, pooled>>
    /\ UNCHANGED aux

\* A reference obtained from deref or deref_mut goes out of use.
EndView(v) ==
    /\ v \in views
    /\ views' = views \ {v}
    /\ lastOp' = Op("end_view", v.of, 0, 0)
    /\ UNCHANGED <<count, pools, retains, releases, autoreleases, ub, count0,
                   given, plusOne, retained, owned, pooled>>
    /\ UNCHANGED aux

\* The scope of a new autorelease pool is entered.
PoolEnter ==
    /\ Len(pools) < MaxPools
    /\ SetRT(objc_autoreleasePoolPush(RT))
    /\ lastOp' = Op("pool_enter", 0, 0, Len(pools) + 1)
    /\ UNCHANGED <<count0, given, plusOne, retained, owned, views, pooled>>
    /\ UNCHANGED aux

\* The innermost pool's scope ends: the pool drains, the references
\* registered in it have had their release, and the references whose
\* lifetime is that pool's are gone.
PoolExit ==
    /\ Len(pools) > 0
    /\ \E r \in objc_autoreleasePoolPop(RT) : SetRT(r)
    /\ pooled' = {[v EXCEPT !.released = (@ \/ v.reg = Len(pools))] :
                  v \in {x \in pooled : x.pool # Len(pools)}}
    /\ lastOp' = Op("pool_exit", 0, 0, Len(pools))
    /\ UNCHANGED <<count0, given, plusOne, retained, owned, views>>
    /\ UNCHANGED aux

\* &*owned: refused by the borrow checker while a &mut of it is in use.
CallOwnedDeref ==
    /\ owned
    /\ \A v \in views : v.of = 0 => ~v.mutable
    /\ Cardinality(views) < MaxViews
    /\ views' = views \cup {Borrow(Owned_deref(Obj), 0)}
    /\ lastOp' = Op("owned_deref", 0, 0, 0)
    /\ UNCHANGED <<count, pools, retains, releases, autoreleases, ub, count0,
                   given, plusOne, retained, owned, pooled>>
    /\ UNCHANGED aux

\* &mut *owned: refused while any reference borrowed from it is in use.
CallOwnedDerefMut ==
    /\ owned
    /\ ~Borrowed(0)
    /\ Cardinality(views) < MaxViews
    /\ views' = views \cup {Borrow(Owned_deref_mut(Obj), 0)}
    /\ lastOp' = Op("owned_deref_mut", 0, 0, 0)
    /\ UNCHANGED <<count, pools, retains, releases, autoreleases, ub, count0,
                   given, plusOne, retained, owned, pooled>>
    /\ UNCHANGED aux

\* Retained::from(owned): the Owned is moved into the call.
CallFrom ==
    /\ owned
    /\ ~Borrowed(0)
    /\ Free # {}
    /\ \E o \in from(RT, Obj) :
          /\ SetRT(o.rt)
          /\ retained' = [retained EXCEPT ![FreeSlot] = o.self]
    /\ owned' = FALSE
    /\ lastOp' = Op("from", 0, FreeSlot, 0)
    /\ UNCHANGED <<count0, given, plusOne, views, pooled>>
    /\ UNCHANGED aux

CallOwnedDrop ==
    /\ owned
    /\ ~Borrowed(0)
    /\ \E r \in Owned_drop(RT, Obj) : SetRT(r)
    /\ owned' = FALSE
    /\ lastOp' = Op("owned_drop", 0, 0, 0)
    /\ UNCHANGED <<count0, given, plusOne, retained, views, pooled>>
    /\ UNCHANGED aux

\* ------------------------------------------------------ specifications
InitCommon ==
    /\ count0 \in 0..MaxBase
    /\ pools = <<>>
    /\ retains = 0
    /\ releases = 0
    /\ autoreleases = 0
    /\ ub = FALSE
    /\ plusOne = 0
    /\ retained = [w \in Slots |-> Null]
    /\ views = {}
    /\ pooled = {}
    /\ lastOp = Op("init", 0, 0, 0)

\* One thread, and no call whose answer is compared.
InitAux ==
    /\ thread = [w \in Slots |-> Home]
    /\ pointee = [send |-> FALSE, sync |-> FALSE]
    /\ heap = [a \in Addresses |-> 0]
    /\ answer = NoAnswer
    /\ env = NoEnv

\* Wrappers come from Retained::new over a +1 claim or from
\* Retained::retain; no Owned exists.
Init ==
    /\ InitCommon
    /\ InitAux
    /\ count = count0
    /\ given = 0
    /\ owned = FALSE

Next ==
    \/ MsgSendNew
    \/ CallNew
    \/ CallRetain
    \/ \E w \in Slots : CallClone(w)
    \/ \E w \in Slots : CallDrop(w)
    \/ \E w \in Slots : \E p \in 1..MaxPools : CallAutorelease(w, p)
    \/ \E w \in Slots : CallDeref(w)
    \/ \E v \in views : EndView(v)
    \/ PoolEnter
    \/ PoolExit

Spec == Init /\ [][Next]_vars

\* The object starts with one Owned<T> over a fresh +1 claim as its only
\* wrapper; only the safe operations are taken from there.
InitOwned ==
    /\ InitCommon
    /\ InitAux
    /\ count = count0 + 1
    /\ given = 1
    /\ owned = TRUE

NextOwned ==
    \/ CallOwnedDeref
    \/ CallOwnedDerefMut
    \/ CallFrom
    \/ CallOwnedDrop
    \/ \E w \in Slots : CallClone(w)
    \/ \E w \in Slots : CallDrop(w)
    \/ \E w \in Slots : \E p \in 1..MaxPools : CallAutorelease(w, p)
    \/ \E w \in Slots : CallDeref(w)
    \/ \E v \in views : EndView(v)
    \/ PoolEnter
    \/ PoolExit

SpecOwned == InitOwned /\ [][NextOwned]_vars

\* ------------------------------------------------------------ threads
\* Mutant of Retained_is_Send: the impl asks for T: Sync alone.
Send_for_Sync_pointee(T) == T.sync

\* unsafe impl<T: Sync + Send> Send for Retained<T>
Retained_is_Send(T) == T.sync /\ T.send

\* unsafe impl<T: Sync + Send> Sync for Retained<T>
Retained_is_Sync(T) == T.sync /\ T.send

\* The value w is moved to thread t, which the compiler accepts for a
\* type that is Send.
ThreadSend(w, t) ==
    /\ retained[w] # Null
    /\ t # thread[w]
    /\ Retained_is_Send(pointee)
    /\ thread' = [thread EXCEPT ![w] = t]
    /\ lastOp' = Op("thread_send", w, 0, 0)
    /\ UNCHANGED <<count, pools, retains, releases, autoreleases, ub, count0,
                   given, plusOne, retained, owned, views, pooled, pointee,
                   heap, answer, env>>

\* Thread t calls w.clone(): on w's own thread, or through a &Retained<T>
\* shared with t, which the compiler accepts for a type that is Sync.
ThreadClone(t, w) ==
    /\ retained[w] # Null
    /\ t = thread[w] \/ Retained_is_Sync(pointee)
    /\ Free # {}
    /\ Claims < MaxClaims
    /\ \E o \in clone(RT, retained[w]) :
          /\ SetRT(o.rt)
          /\ retained' = [retained EXCEPT ![FreeSlot] = o.self]
    /\ thread' = [thread EXCEPT ![FreeSlot] = t]
    /\ lastOp' = Op("thread_clone", w, FreeSlot, 0)
    /\ UNCHANGED <<count0, given, plusOne, owned, views, pooled, pointee,
                   heap, answer, env>>

\* The value w is dropped by the thread it is on.
ThreadDrop(w) ==
    /\ retained[w] # Null
    /\ \E r \in drop(RT, retained[w]) : SetRT(r)
    /\ retained' = [retained EXCEPT ![w] = Null]
    /\ lastOp' = Op("thread_drop", w, 0, 0)
    /\ UNCHANGED <<count0, given, plusOne, owned, views, pooled, thread,
                   pointee, heap, answer, env>>

\* The object's own thread makes a wrapper as tests::test_clone does:
\* Retained::new(msg_send![cls, new]).
ThreadNew ==
    /\ Claims < MaxClaims
    /\ Free # {}
    /\ \E o \in new([RT EXCEPT !.count = @ + 1], Obj) :
          /\ SetRT(o.rt)
          /\ retained' = [retained EXCEPT ![FreeSlot] = o.self]
    /\ given' = given + 1
    /\ thread' = [thread EXCEPT ![FreeSlot] = Home]
    /\ lastOp' = Op("thread_new", 0, FreeSlot, 0)
    /\ UNCHANGED <<count0, plusOne, owned, views, pooled, pointee, heap,
                   answer, env>>

\* T is any combination of Send and Sync.
InitThreads ==
    /\ InitCommon
    /\ count = count0
    /\ given = 0
    /\ owned = FALSE
    /\ thread = [w \in Slots |-> Home]
    /\ pointee \in [send : BOOLEAN, sync : BOOLEAN]
    /\ heap = [a \in Addresses |-> 0]
    /\ answer = NoAnswer
    /\ env = NoEnv

NextThreads ==
    \/ ThreadNew
    \/ \E w \in Slots : \E t \in Threads : ThreadSend(w, t)
    \/ \E w \in Slots : \E t \in Threads : ThreadClone(t, w)
    \/ \E w \in Slots : ThreadDrop(w)

SpecThreads == InitThreads /\ [][NextThreads]_vars

\* ------------------------------------------------- read-only operations
\* What the pointee type T brings: its comparison, its hashing (the value
\* is fed to the hasher, whose state is what it was fed so far) and its
\* formatting, all on the value the heap holds at the reference's address.
T_eq(x, y) == x = y
T_ne(x, y) == x # y
T_hash(x, state) == Append(state, x)
T_fmt(trait, x) == <<trait, x>>
NewHasher == <<>>

\* Mutant of eq: the wrappers are compared by pointer identity.
eq_by_pointer(h, self, other) == as_ptr(self) = as_ptr(other)

\* &**self == &**other
eq(h, self, other) == T_eq(h[deref(self).ptr], h[deref(other).ptr])

\* &**self != &**other
ne(h, self, other) == T_ne(h[deref(self).ptr], h[deref(other).ptr])

\* (&**self).hash(state)
hash(h, self, state) == T_hash(h[deref(self).ptr], state)

\* fmt::Display::fmt(&**self, f) and fmt::Debug::fmt(&**self, f)
Display_fmt(h, self) == T_fmt("Display", h[deref(self).ptr])
Debug_fmt(h, self) == T_fmt("Debug", h[deref(self).ptr])

\* fmt::Pointer::fmt(&self.ptr.as_ptr(), f): the address is what is printed.
Pointer_fmt(self) == <<"Pointer", self>>

\* &**self
borrow(self) == deref(self)
as_ref(self) == deref(self)

Returned(x) == [value |-> x, panicked |-> FALSE]

\* A call that looks at the pointee of w is undefined behaviour when the
\* object is deallocated.
Looks(w) == ub \/ (retained[w] = Obj /\ count = 0)

\* What a call that only reads leaves alone; it sets ub, answer and lastOp.
ReadOnly ==
    UNCHANGED <<count, pools, retains, releases, autoreleases, count0, given,
                plusOne, retained, owned, views, pooled, thread, pointee,
                heap, env>>

\* Retained::new(msg_send![cls, new]) for the object at address a.
CallNewOf(a) ==
    /\ Free # {}
    /\ a = Obj => Claims < MaxClaims
    /\ \E o \in new([RT EXCEPT !.count = IF a = Obj THEN @ + 1 ELSE @], a) :
          /\ SetRT(o.rt)
          /\ retained' = [retained EXCEPT ![FreeSlot] = o.self]
    /\ given' = IF a = Obj THEN given + 1 ELSE given
    /\ lastOp' = Op("new_of", 0, FreeSlot, 0)
    /\ UNCHANGED <<count0, plusOne, owned, views, pooled>>
    /\ UNCHANGED aux

CallAsPtr(w) ==
    /\ retained[w] # Null
    /\ answer' = Returned(as_ptr(retained[w]))
    /\ lastOp' = Op("as_ptr", w, 0, 0)
    /\ UNCHANGED ub
    /\ ReadOnly

CallBorrow(w) ==
    /\ retained[w] # Null
    /\ answer' = Returned(borrow(retained[w]))
    /\ ub' = Looks(w)
    /\ lastOp' = Op("borrow", w, 0, 0)
    /\ ReadOnly

CallAsRef(w) ==
    /\ retained[w] # Null
    /\ answer' = Returned(as_ref(retained[w]))
    /\ ub' = Looks(w)
    /\ lastOp' = Op("as_ref", w, 0, 0)
    /\ ReadOnly

\* a == b
CallEq(a, b) ==
    /\ retained[a] # Null /\ retained[b] # Null
    /\ answer' = Returned(eq(heap, retained[a], retained[b]))
    /\ ub' = (Looks(a) \/ Looks(b))
    /\ lastOp' = Op("eq", a, b, 0)
    /\ ReadOnly

\* a != b
CallNe(a, b) ==
    /\ retained[a] # Null /\ retained[b] # Null
    /\ answer' = Returned(ne(heap, retained[a], retained[b]))
    /\ ub' = (Looks(a) \/ Looks(b))
    /\ lastOp' = Op("ne", a, b, 0)
    /\ ReadOnly

\* w.hash(&mut hasher) with a new hasher
CallHash(w) ==
    /\ retained[w] # Null
    /\ answer' = Returned(hash(heap, retained[w], NewHasher))
    /\ ub' = Looks(w)
    /\ lastOp' = Op("hash", w, 0, 0)
    /\ ReadOnly

\* format!("{}", w), format!("{:?}", w), format!("{:p}", w)
CallDisplay(w) ==
    /\ retained[w] # Null
    /\ answer' = Returned(Display_fmt(heap, retained[w]))
    /\ ub' = Looks(w)
    /\ lastOp' = Op("display", w, 0, 0)
    /\ ReadOnly

CallDebug(w) ==
    /\ retained[w] # Null
    /\ answer' = Returned(Debug_fmt(heap, retained[w]))
    /\ ub' = Looks(w)
    /\ lastOp' = Op("debug", w, 0, 0)
    /\ ReadOnly

CallPointer(w) ==
    /\ retained[w] # Null
    /\ answer' = Returned(Pointer_fmt(retained[w]))
    /\ lastOp' = Op("pointer", w, 0, 0)
    /\ UNCHANGED ub
    /\ ReadOnly

\* Wrappers of two objects, whose pointees compare as any two values.
InitRead ==
    /\ InitCommon
    /\ count = count0
    /\ given = 0
    /\ owned = FALSE
    /\ thread = [w \in Slots |-> Home]
    /\ pointee = [send |-> FALSE, sync |-> FALSE]
    /\ heap \in [Addresses -> Values]
    /\ answer = NoAnswer
    /\ env = NoEnv

NextRead ==
    \/ \E a \in Addresses : CallNewOf(a)
    \/ \E w \in Slots : CallDrop(w)
    \/ \E a \in Slots : \E b \in Slots : CallEq(a, b)
    \/ \E a \in Slots : \E b \in Slots : CallNe(a, b)
    \/ \E w \in Slots : CallHash(w)

SpecRead == InitRead /\ [][NextRead]_vars

\* The wrappers hold the only claims on the object.
InitFrame ==
    /\ Init
    /\ count0 = 0

\* Every read-only operation, on wrappers some of which are borrowed or
\* have been autoreleased into pools.
NextFrame ==
    \/ CallNewOf(Obj)
    \/ \E w \in Slots : \E p \in 1..MaxPools : CallAutorelease(w, p)
    \/ PoolEnter
    \/ PoolExit
    \/ \E w \in Slots : CallAsPtr(w)
    \/ \E w \in Slots : CallDeref(w)
    \/ \E v \in views : EndView(v)
    \/ \E w \in Slots : CallBorrow(w)
    \/ \E w \in Slots : CallAsRef(w)
    \/ \E a \in Slots : \E b \in Slots : CallEq(a, b)
    \/ \E a \in Slots : \E b \in Slots : CallNe(a, b)
    \/ \E w \in Slots : CallHash(w)
    \/ \E w \in Slots : CallDisplay(w)
    \/ \E w \in Slots : CallDebug(w)
    \/ \E w \in Slots : CallPointer(w)

SpecFrame == InitFrame /\ [][NextFrame]_vars

\* ------------------------------------------------ retain and its runtime
\* unsafe Retained::retain(ptr) on a live object that has no Owned, with a
\* runtime whose objc_retain returns rtn.
CallRetainReturning(rtn) ==
    /\ count > 0
    /\ ~owned
    /\ Free # {}
    /\ Claims < MaxClaims
    /\ \E o \in Retained_retain(RT, Obj, rtn, env.debug_assertions) :
          /\ SetRT(o.rt)
          /\ retained' = IF o.panicked THEN retained
                         ELSE [retained EXCEPT ![FreeSlot] = o.self]
          /\ answer' = [value |-> o.self, panicked |-> o.panicked]
          /\ lastOp' = Op("retain_returning", 0,
                          IF o.panicked THEN 0 ELSE FreeSlot, 0)
    /\ env' = [env EXCEPT !.rtn = rtn]
    /\ UNCHANGED <<count0, given, plusOne, owned, views, pooled, thread,
                   pointee, heap>>

\* unsafe Retained::retain_and_autorelease(obj, &pool) on a live object
\* that has no Owned, pool being any pool whose scope the call is in.
CallRetainAndAutorelease(p) ==
    /\ count > 0
    /\ ~owned
    /\ p \in 1..Len(pools)
    /\ \E o \in retain_and_autorelease(RT, Obj, p) :
          /\ SetRT(o.rt)
          /\ answer' = [value |-> o.ref, panicked |-> o.panicked]
    /\ lastOp' = Op("retain_and_autorelease", 0, 0, p)
    /\ UNCHANGED <<count0, given, plusOne, retained, owned, views, pooled,
                   thread, pointee, heap, env>>

\* The build has debug assertions or not, for the whole run.
InitRetain ==
    /\ InitCommon
    /\ count = count0
    /\ given = 0
    /\ owned = FALSE
    /\ thread = [w \in Slots |-> Home]
    /\ pointee = [send |-> FALSE, sync |-> FALSE]
    /\ heap = [a \in Addresses |-> 0]
    /\ answer = NoAnswer
    /\ env \in {[NoEnv EXCEPT !.debug_assertions = d] : d \in BOOLEAN}

NextRetain ==
    \/ CallNewOf(Obj)
    \/ \E rtn \in Addresses : CallRetainReturning(rtn)
    \/ \E p \in 1..MaxPools : CallRetainAndAutorelease(p)
    \/ \E w \in Slots : CallDrop(w)
    \/ PoolEnter
    \/ PoolExit

SpecRetain == InitRetain /\ [][NextRetain]_vars

\* -------------------------------------------------------------- claims
Calls == <<retains, releases, autoreleases>>

\* Every claim on the object is accounted for: the claims of other owners,
\* the +1 claims not wrapped yet, one per live wrapper and one per
\* registration waiting in a pool.
Accounted == count = count0 + plusOne + Cardinality(Live) + Pending

\* C1: Retained::from(owned) consumes the Owned and calls no runtime
\* primitive: the retain count is the same after the conversion as before
\* it, and the resulting Retained holds the claim the Owned held.
C1_FromCallsNoPrimitive ==
    [][lastOp'.op = "from" =>
          /\ Calls' = Calls
          /\ count' = count
          /\ ~owned'
          /\ retained'[lastOp'.nw] = Obj]_vars

\* C2: once every wrapper made by new, retain and clone has been dropped
\* or autoreleased and every pool holding a registration has drained, the
\* release calls equal the claims created and the retain count is back
\* at its value before the run.
C2_Balance ==
    (Live = {} /\ Pending = 0 /\ plusOne = 0) =>
        (releases = Claims /\ count = count0)

C2_Witness ==
    /\ Live = {} /\ Pending = 0 /\ plusOne = 0
    /\ given >= 1 /\ retains >= 1 /\ autoreleases >= 1
    /\ releases = Claims

\* C3: the claim autorelease gives up is released when the scope of the
\* pool passed to it ends and not earlier, so the reference it returns,
\* which lives as long as that pool, is never in use after that release:
\* while the reference is in use the release has not happened and the
\* object is allocated.
C3_RefValidForPoolScope ==
    \A v \in pooled : ~v.released /\ count > 0

\* C4: clone calls objc_retain once and nothing else; the count rises by
\* exactly one; the original wrapper is unchanged and the new wrapper
\* holds the same handle; the count covers both as separate claims.
C4_Clone ==
    [][lastOp'.op = "clone" =>
          LET w == lastOp'.w
              nw == lastOp'.nw
          IN  /\ retains' = retains + 1
              /\ releases' = releases
              /\ autoreleases' = autoreleases
              /\ count' = count + 1
              /\ pools' = pools
              /\ w # nw
              /\ retained[nw] = Null
              /\ retained'[nw] = retained[w]
              /\ \A x \in Slots \ {nw} : retained'[x] = retained[x]
              /\ count' >= Cardinality(Live')]_vars

C4_Witness ==
    /\ lastOp.op = "clone"
    /\ count = 2
    /\ Cardinality(Live) = 2
    /\ retained[lastOp.w] = retained[lastOp.nw]

\* C5: drop calls objc_release once and nothing else; the count falls by
\* exactly one; dropping the last claim deallocates the object, and
\* otherwise the remaining wrappers keep their claims.
C5_Drop ==
    [][lastOp'.op = "drop" =>
          LET w == lastOp'.w
          IN  /\ releases' = releases + 1
              /\ retains' = retains
              /\ autoreleases' = autoreleases
              /\ count >= 1
              /\ count' = count - 1
              /\ pools' = pools
              /\ retained'[w] = Null
              /\ \A x \in Slots \ {w} : retained'[x] = retained[x]
              /\ count' >= Cardinality(Live')
              /\ (Live' # {} => count' >= 1)]_vars

C5_Witness ==
    /\ lastOp.op = "drop"
    /\ Cardinality(Live) = 1
    /\ count = 1
    /\ releases = 1

\* C6: Retained::new calls no runtime primitive and leaves the count as it
\* was; the wrapper takes over the caller's +1 claim, and dropping that
\* wrapper releases the claim once.
C6_New ==
    [][/\ lastOp'.op = "new" =>
            /\ Calls' = Calls
            /\ count' = count
            /\ pools' = pools
            /\ plusOne' = plusOne - 1
            /\ retained[lastOp'.nw] = Null
            /\ retained'[lastOp'.nw] = Obj
            /\ Accounted'
       /\ (lastOp.op = "new" /\ lastOp'.op = "drop"
             /\ lastOp'.w = lastOp.nw) =>
            /\ releases' = releases + 1
            /\ count' = count - 1]_vars

C6_Witness ==
    /\ lastOp.op = "new"
    /\ count0 = 0
    /\ count = 1
    /\ Live # {}

\* C7: autorelease calls objc_autorelease once and objc_release not at
\* all; the wrapper is consumed and the count is the same right after the
\* call as right before it.
C7_Autorelease ==
    [][lastOp'.op = "autorelease" =>
          /\ autoreleases' = autoreleases + 1
          /\ releases' = releases
          /\ retains' = retains
          /\ count' = count
          /\ retained'[lastOp'.w] = Null
          /\ Pending' = Pending + 1]_vars

C7_Witness ==
    /\ lastOp.op = "autorelease"
    /\ autoreleases = 1
    /\ releases = 0
    /\ count >= 1

\* C8: a claim handed to a pool by autorelease is released exactly once,
\* no later than the end of the scope of the pool passed to autorelease:
\* a pool's exit lowers the count by exactly one per registration in it,
\* every reference bound to that pool has had its release by then, and no
\* claim is released again by a later drop or drain.
C8_ReleasedOnceByScopeExit ==
    /\ []Accounted
    /\ [][lastOp'.op = "pool_exit" =>
            LET d == Len(pools)
            IN  /\ count' = count - pools[d]
                /\ releases' = releases + pools[d]
                /\ retains' = retains
                /\ Pending' = Pending - pools[d]
                /\ \A v \in pooled :
                      v.pool = d => (v.released \/ v.reg = d)]_vars

C8_Witness ==
    /\ lastOp.op = "pool_exit"
    /\ autoreleases >= 1
    /\ releases = autoreleases
    /\ Pending = 0

Exclusive ==
    \A v \in views :
        v.mutable => /\ v.of = 0
                     /\ owned
                     /\ Live = {}
                     /\ pooled = {}
                     /\ views = {v}

\* C10: starting from an Owned that is the object's only wrapper, a
\* mutable reference never coexists with another wrapper or reference of
\* the object; no Retained hands one out, and no Owned comes into being
\* from a Retained.
C10_Exclusivity ==
    /\ []Exclusive
    /\ [][owned' => owned]_vars

C10_Witness ==
    /\ lastOp.op = "owned_deref_mut"
    /\ \E v \in views : v.mutable

\* C11: a Retained<T> is on a thread other than the object's own, by a
\* move or by a clone made there through a shared reference, only when T
\* is both Sync and Send; so in every interleaving of clone, transfer and
\* drop across threads, a release that destroys the object runs on another
\* thread than the object's own only for such a T.
C11_ThreadSafety ==
    /\ [](\A w \in Live : thread[w] # Home => pointee.sync /\ pointee.send)
    /\ [][/\ lastOp'.op = "thread_send" => pointee.sync /\ pointee.send
          /\ (lastOp'.op = "thread_clone"
                /\ thread'[lastOp'.nw] # thread[lastOp'.w])
              => pointee.sync /\ pointee.send
          /\ (lastOp'.op = "thread_drop" /\ count > 0 /\ count' = 0
                /\ thread[lastOp'.w] # Home)
              => pointee.sync /\ pointee.send]_vars

C11_Witness ==
    /\ lastOp.op = "thread_drop"
    /\ thread[lastOp.w] # Home
    /\ count = 0
    /\ retains >= 1
    /\ ~ub
    /\ pointee.sync /\ pointee.send

\* C12: eq, ne and hash go to T through the immutable view and not to the
\* pointer: a == b exactly when *a == *b and a != b exactly when *a != *b,
\* so two wrappers of different handles whose pointees compare equal are
\* equal; the hash of a wrapper is the hash of its pointee; and none of the
\* three changes the retain count or calls a primitive.
C12_CompareByPointee ==
    [][/\ lastOp'.op = "eq" =>
             answer'.value = T_eq(heap[retained[lastOp'.w]],
                                  heap[retained[lastOp'.nw]])
       /\ lastOp'.op = "ne" =>
             answer'.value = T_ne(heap[retained[lastOp'.w]],
                                  heap[retained[lastOp'.nw]])
       /\ lastOp'.op = "hash" =>
             answer'.value = T_hash(heap[retained[lastOp'.w]], NewHasher)
       /\ lastOp'.op \in {"eq", "ne", "hash"} =>
             /\ count' = count
             /\ Calls' = Calls]_vars

C12_Witness ==
    /\ lastOp.op = "eq"
    /\ retained[lastOp.w] # retained[lastOp.nw]
    /\ heap[retained[lastOp.w]] = heap[retained[lastOp.nw]]
    /\ answer.value = TRUE
    /\ count > 0

\* C14: Retained::retain(ptr) calls objc_retain exactly once, which raises
\* the count by one, and wraps the handle the call returned.  In a build
\* with debug assertions a returned handle that differs from ptr makes the
\* call panic and no wrapper is made; when the runtime returns ptr the
\* wrapper's handle is ptr.
C14_RetainChecksItsHandle ==
    [][lastOp'.op = "retain_returning" =>
          /\ retains' = retains + 1
          /\ releases' = releases /\ autoreleases' = autoreleases
          /\ count' = count + 1
          /\ answer'.panicked <=> (env'.debug_assertions /\ env'.rtn # Obj)
          /\ answer'.panicked => retained' = retained
          /\ ~answer'.panicked =>
                /\ lastOp'.nw \in Free
                /\ retained' = [retained EXCEPT ![lastOp'.nw] = env'.rtn]
          /\ env'.rtn = Obj => retained'[lastOp'.nw] = Obj]_vars

C14_Witness ==
    /\ lastOp.op = "retain_returning"
    /\ answer.panicked
    /\ env.debug_assertions
    /\ env.rtn = Obj2
    /\ retains >= 2
    /\ Cardinality(Live) >= 1

\* C15: Retained::retain_and_autorelease(obj, pool) does what
\* Retained::retain(obj).autorelease(pool) does: for a live object and a
\* pool in scope it returns a reference to the object, and the runtime is
\* left as one retain followed by one registration in the current pool
\* leave it.
C15_RetainAndAutorelease ==
    [][lastOp'.op = "retain_and_autorelease" =>
          /\ ~answer'.panicked
          /\ answer'.value = Obj
          /\ RT' \in {a.rt : a \in UNION {autorelease(o.rt, o.self, lastOp'.pool) :
                                           o \in retain(RT, Obj)}}]_vars

\* C16: no wrapper dangles.  After a construction by Retained::new over a
\* +1 claim, by Retained::retain or by conversion from an Owned, followed
\* by clone, drop, deref, autorelease and pool drains, the retain count is
\* at least the number of live Retained wrappers plus the registrations
\* still waiting in pools, so it is at least 1 while a wrapper is live.
C16_NoDanglingWrapper ==
    /\ count >= Cardinality(Live) + Pending
    /\ Live # {} => count >= 1

\* C17: as_ptr, deref, borrow, as_ref, eq, ne, hash and the Display, Debug
\* and Pointer formatting call none of objc_retain, objc_release and
\* objc_autorelease and leave the retain count, the live wrappers and
\* every pool's registrations as they were; as_ptr returns the handle the
\* wrapper was made with.
C17_ReadOnlyFrame ==
    [][/\ lastOp'.op \in {"as_ptr", "deref", "borrow", "as_ref", "eq", "ne",
                          "hash", "display", "debug", "pointer"} =>
             /\ Calls' = Calls
             /\ count' = count
             /\ retained' = retained
             /\ pools' = pools
       /\ lastOp'.op = "as_ptr" =>
             answer'.value = retained[lastOp'.w]]_vars

C17_Witness ==
    /\ lastOp.op = "as_ptr"
    /\ answer.value = Obj
    /\ Pending >= 1
    /\ views # {}
    /\ Cardinality(Live) >= 2

====
